---- MODULE Spec2Model ----
EXTENDS Integers, Sequences, FiniteSets, TLC

(* Model of CustomCrawler.__init__ (src/helper_functions/crawler.py).      *)
(* The constructor detects the environment, assembles the webdriver launch *)
(* options, registers them on a Chrome Options object, starts the driver   *)
(* (which may raise) and stores the crawl configuration on the instance.   *)

NoneV == "None"
NotPassed == [passed |-> FALSE, val |-> "unused"]
Passed(v) == [passed |-> TRUE, val |-> v]
NoneList == [none |-> TRUE, list |-> <<>>]
NoInstance == "no_instance"
DriverError == "WebDriverException"

\* Bound: length of caller-supplied webdriver_options lists.
MaxLen == 1

\* Flags a caller may put in webdriver_options.
CallerFlags == {"--headless", "--disable-gpu", "--no-sandbox",
                "--remote-debugging-port=9222", "--window-size=800,600"}

\* Values of AZUREML_ENVIRONMENT_IMAGE ("unset" = variable absent).
AzureValues == {"unset", "True", "true"}
Platforms == {"linux", "win32", "cygwin"}
Euids == {0, 1000}
ModuleSets == {{}, {"google.colab"}}

SeqsUpTo(S, n) == UNION {[1..k -> S] : k \in 0..n}
Range(s) == {s[i] : i \in DOMAIN s}

\* Python signature defaults of CustomCrawler.__init__ (lines 29-38).
DefaultsDepthZero == [urls |-> NoneV, crawler_depth |-> 0, filter_urls |-> NoneV,
             id_hash_keys |-> NoneV, extract_hidden_text |-> TRUE,
             loading_wait_time |-> NoneV, output_dir |-> NoneV,
             overwrite_existing_files |-> TRUE,
             file_path_meta_field_name |-> NoneV,
             crawler_naming_function |-> NoneV]
Defaults == [urls |-> NoneV, crawler_depth |-> 1, filter_urls |-> NoneV,
             id_hash_keys |-> NoneV, extract_hidden_text |-> TRUE,
             loading_wait_time |-> NoneV, output_dir |-> NoneV,
             overwrite_existing_files |-> TRUE,
             file_path_meta_field_name |-> NoneV,
             crawler_naming_function |-> NoneV]
FieldNames == DOMAIN Defaults

\* Binding of keyword arguments: an omitted argument takes its default.
BindArgs(kw) == [f \in FieldNames |-> IF kw[f].passed THEN kw[f].val ELSE Defaults[f]]

\* Environment detection, lines 87-90.
InColab(mods) == "google.colab" \in mods
InAzureMLCaseless(az) == az \in {"True", "true"}
InAzureML(az) == IF az = "unset" THEN NoneV = "True" ELSE az = "True"
InWindows(plat) == plat \in {"win32", "cygwin"}
\* Whether os.geteuid() is evaluated: `not IN_WINDOWS and ...` short-circuits.
GeteuidEvaluatedEager(inWin) == TRUE
GeteuidEvaluated(inWin) == ~inWin
IsRoot(inWin, euid) == IF GeteuidEvaluated(inWin) THEN euid = 0 ELSE FALSE

DefaultOptionsNoSingleProcess == <<"--headless", "--disable-gpu", "--disable-dev-shm-usage">>
DefaultOptions == <<"--headless", "--disable-gpu", "--disable-dev-shm-usage", "--single-process">>

AppendIf(l, c, f) == IF c THEN Append(l, f) ELSE l

\* Variants of the option assembly with a slipped line.
WebdriverOptionsNoHeadless(base, colab, azure, win, root) ==
  LET l0 == IF base.none THEN DefaultOptions ELSE base.list
      l2 == AppendIf(l0, root \/ win \/ colab, "--no-sandbox")
      l3 == AppendIf(l2, root \/ win, "--remote-debugging-port=9222")
  IN AppendIf(l3, colab \/ azure, "--disable-dev-shm-usage")
WebdriverOptionsDebugWinOnly(base, colab, azure, win, root) ==
  LET l0 == IF base.none THEN DefaultOptions ELSE base.list
      l1 == Append(l0, "--headless")
      l2 == AppendIf(l1, root \/ win \/ colab, "--no-sandbox")
      l3 == AppendIf(l2, win, "--remote-debugging-port=9222")
  IN AppendIf(l3, colab \/ azure, "--disable-dev-shm-usage")
WebdriverOptionsNoColabSandbox(base, colab, azure, win, root) ==
  LET l0 == IF base.none THEN DefaultOptions ELSE base.list
      l1 == Append(l0, "--headless")
      l2 == AppendIf(l1, root \/ win, "--no-sandbox")
      l3 == AppendIf(l2, root \/ win, "--remote-debugging-port=9222")
  IN AppendIf(l3, colab \/ azure, "--disable-dev-shm-usage")
WebdriverOptionsNotWinSandbox(base, colab, azure, win, root) ==
  LET l0 == IF base.none THEN DefaultOptions ELSE base.list
      l1 == Append(l0, "--headless")
      l2 == AppendIf(l1, root \/ ~win \/ colab, "--no-sandbox")
      l3 == AppendIf(l2, root \/ win, "--remote-debugging-port=9222")
  IN AppendIf(l3, colab \/ azure, "--disable-dev-shm-usage")

\* The option list after lines 92-100 (base.none when not supplied).
WebdriverOptions(base, colab, azure, win, root) ==
  LET l0 == IF base.none THEN DefaultOptions ELSE base.list
      l1 == Append(l0, "--headless")
      l2 == AppendIf(l1, root \/ win \/ colab, "--no-sandbox")
      l3 == AppendIf(l2, root \/ win, "--remote-debugging-port=9222")
      l4 == AppendIf(l3, colab \/ azure, "--disable-dev-shm-usage")
  IN l4

\* Lines 102-104: Options().add_argument for each element of set(options).
RegisteredArgs(l) == Range(l)

VARIABLES
  callerOpts,     \* the webdriver_options argument as passed (none flag and list)
  callerList,     \* the caller's list object as seen after the call
  kwargs,         \* the other keyword arguments (passed flag and value)
  modules,        \* sys.modules names relevant to detection
  azureVar,       \* AZUREML_ENVIRONMENT_IMAGE
  platform,       \* sys.platform
  euid,           \* os.geteuid()
  pc,             \* "idle" before the call, "done" returned, "failed" raised
  geteuidCalled,  \* whether os.geteuid() was evaluated
  signals,        \* [colab, azure, win, root] as computed by __init__
  args,           \* arguments registered on the Options object
  driverAttempts, \* number of webdriver.Chrome(...) calls
  raised,         \* exception propagated to the caller, or NoneV
  self            \* the returned instance's fields, or NoInstance

vars == <<callerOpts, callerList, kwargs, modules, azureVar, platform, euid,
          pc, geteuidCalled, signals, args, driverAttempts, raised, self>>

OptsInputs == {NoneList} \cup {[none |-> FALSE, list |-> s] : s \in SeqsUpTo(CallerFlags, MaxLen)}

AllOmitted == [f \in FieldNames |-> NotPassed]

KwargsChoices == [urls : {NotPassed, Passed("['https://a.example']")},
                  crawler_depth : {NotPassed, Passed(0)},
                  filter_urls : {NotPassed, Passed("['a.*']")},
                  id_hash_keys : {NotPassed, Passed("['content', 'meta']")},
                  extract_hidden_text : {NotPassed, Passed(FALSE)},
                  loading_wait_time : {NotPassed, Passed("2")},
                  output_dir : {NotPassed, Passed("out")},
                  overwrite_existing_files : {NotPassed, Passed(FALSE)},
                  file_path_meta_field_name : {NotPassed, Passed("file_path")},
                  crawler_naming_function : {NotPassed, Passed("naming_fn")}]

InitWith(optsSet, kwSet, modSet, azSet, platSet, euidSet) ==
  /\ callerOpts \in optsSet
  /\ callerList = callerOpts
  /\ kwargs \in kwSet
  /\ modules \in modSet
  /\ azureVar \in azSet
  /\ platform \in platSet
  /\ euid \in euidSet
  /\ pc = "idle"
  /\ geteuidCalled = FALSE
  /\ signals = [colab |-> FALSE, azure |-> FALSE, win |-> FALSE, root |-> FALSE]
  /\ args = {}
  /\ driverAttempts = 0
  /\ raised = NoneV
  /\ self = NoInstance

Init == InitWith(OptsInputs, {AllOmitted}, ModuleSets, AzureValues, Platforms, Euids)

\* __init__ run to completion: webdriver.Chrome(...) starts (line 106) and
\* the configuration fields are stored (lines 107-116).
ConstructOk ==
  LET colab == InColab(modules)
      azure == InAzureML(azureVar)
      win == InWindows(platform)
      root == IsRoot(win, euid)
      l == WebdriverOptions(callerOpts, colab, azure, win, root)
  IN /\ pc = "idle"
     /\ pc' = "done"
     /\ geteuidCalled' = GeteuidEvaluated(win)
     /\ signals' = [colab |-> colab, azure |-> azure, win |-> win, root |-> root]
     /\ callerList' = IF callerOpts.none THEN callerOpts ELSE [none |-> FALSE, list |-> l]
     /\ args' = RegisteredArgs(l)
     /\ driverAttempts' = driverAttempts + 1
     /\ raised' = NoneV
     /\ self' = BindArgs(kwargs)
     /\ UNCHANGED <<callerOpts, kwargs, modules, azureVar, platform, euid>>

\* Variant that catches the driver error and returns a partly built instance.
ConstructFailCaught ==
  LET colab == InColab(modules)
      azure == InAzureML(azureVar)
      win == InWindows(platform)
      root == IsRoot(win, euid)
      l == WebdriverOptions(callerOpts, colab, azure, win, root)
  IN /\ pc = "idle"
     /\ pc' = "failed"
     /\ geteuidCalled' = GeteuidEvaluated(win)
     /\ signals' = [colab |-> colab, azure |-> azure, win |-> win, root |-> root]
     /\ callerList' = IF callerOpts.none THEN callerOpts ELSE [none |-> FALSE, list |-> l]
     /\ args' = RegisteredArgs(l)
     /\ driverAttempts' = driverAttempts + 1
     /\ raised' = NoneV
     /\ self' = BindArgs(kwargs)
     /\ UNCHANGED <<callerOpts, kwargs, modules, azureVar, platform, euid>>

\* __init__ where webdriver.Chrome(...) raises (line 106): the exception is
\* not caught, so it propagates and no instance is returned.
ConstructFail ==
  LET colab == InColab(modules)
      azure == InAzureML(azureVar)
      win == InWindows(platform)
      root == IsRoot(win, euid)
      l == WebdriverOptions(callerOpts, colab, azure, win, root)
  IN /\ pc = "idle"
     /\ pc' = "failed"
     /\ geteuidCalled' = GeteuidEvaluated(win)
     /\ signals' = [colab |-> colab, azure |-> azure, win |-> win, root |-> root]
     /\ callerList' = IF callerOpts.none THEN callerOpts ELSE [none |-> FALSE, list |-> l]
     /\ args' = RegisteredArgs(l)
     /\ driverAttempts' = driverAttempts + 1
     /\ raised' = DriverError
     /\ self' = NoInstance
     /\ UNCHANGED <<callerOpts, kwargs, modules, azureVar, platform, euid>>

Next == ConstructOk \/ ConstructFail

Spec == Init /\ [][Next]_vars

\* Configuration-field variant: options not supplied, keyword arguments varied.
InitFields == InitWith({NoneList}, KwargsChoices, {{}}, {"unset"}, {"linux"}, {1000})

SpecFields == InitFields /\ [][Next]_vars

Ran == pc # "idle"
BaseOf(o) == IF o.none THEN DefaultOptions ELSE o.list
Headless == "--headless"
NoSandbox == "--no-sandbox"
DebugPort == "--remote-debugging-port=9222"
DevShm == "--disable-dev-shm-usage"

\* C1: whatever options the caller passes and whatever the environment, the
\* registered launch arguments contain "--headless".
C1_HeadlessAlways == Ran => Headless \in args
C1_Witness == pc = "done" /\ ~callerOpts.none /\ Headless \notin Range(callerOpts.list)

\* C2 (as stated): with no webdriver_options the registered arguments are
\* exactly the four default flags.
C2_Original == (Ran /\ callerOpts.none) =>
  args = {"--headless", "--disable-gpu", "--disable-dev-shm-usage", "--single-process"}
\* C2 (amended): with no webdriver_options the registered arguments are the
\* four default flags plus "--no-sandbox" when root, Windows or Colab and
\* "--remote-debugging-port=9222" when root or Windows.
C2_DefaultsAmended == (Ran /\ callerOpts.none) =>
  args = {"--headless", "--disable-gpu", "--disable-dev-shm-usage", "--single-process"}
         \cup (IF signals.root \/ signals.win \/ signals.colab THEN {NoSandbox} ELSE {})
         \cup (IF signals.root \/ signals.win THEN {DebugPort} ELSE {})
C2_Witness == pc = "done" /\ callerOpts.none /\ signals.colab /\ ~signals.win

\* C3: as root and not on Windows, "--no-sandbox" and the debugging port
\* flag are both registered.
C3_RootFlags == (Ran /\ signals.root /\ ~signals.win) =>
  (NoSandbox \in args /\ DebugPort \in args)
C3_Witness == pc = "done" /\ signals.root /\ ~signals.win /\ ~callerOpts.none

\* C4 (as stated): in Colab, not root, not Windows, "--no-sandbox" and
\* "--disable-dev-shm-usage" are registered and the debugging port is not.
C4_Original == (Ran /\ signals.colab /\ ~signals.root /\ ~signals.win) =>
  (NoSandbox \in args /\ DevShm \in args /\ DebugPort \notin args)
\* C4 (amended): same, except the debugging port flag is registered exactly
\* when the caller's own list contains it.
C4_ColabAmended == (Ran /\ signals.colab /\ ~signals.root /\ ~signals.win) =>
  (NoSandbox \in args /\ DevShm \in args /\
   (DebugPort \in args <=> (~callerOpts.none /\ DebugPort \in Range(callerOpts.list))))
C4_Witness == pc = "done" /\ signals.colab /\ ~signals.root /\ ~signals.win
              /\ ~callerOpts.none /\ DebugPort \in Range(callerOpts.list)

\* C5: with all four environment signals false the registered arguments are
\* exactly set(base) plus "--headless".
C5_NoSignals == (Ran /\ ~signals.colab /\ ~signals.azure /\ ~signals.win /\ ~signals.root) =>
  args = Range(BaseOf(callerOpts)) \cup {Headless}
C5_Witness == pc = "done" /\ ~signals.colab /\ ~signals.azure /\ ~signals.win
              /\ ~signals.root /\ ~callerOpts.none /\ Headless \notin Range(callerOpts.list)

\* C6: on a Windows platform os.geteuid() is never evaluated and IS_ROOT is false.
C6_NoGeteuidOnWindows == (Ran /\ platform \in {"win32", "cygwin"}) =>
  (~geteuidCalled /\ ~signals.root)
C6_Witness == pc = "done" /\ platform \in {"win32", "cygwin"} /\ euid = 0

\* C7: after a successful construction every configuration field equals the
\* value passed, or its stated default when omitted.
C7_StatedDefaults == [urls |-> "None", crawler_depth |-> 1, filter_urls |-> "None",
             id_hash_keys |-> "None", extract_hidden_text |-> TRUE,
             loading_wait_time |-> "None", output_dir |-> "None",
             overwrite_existing_files |-> TRUE,
             file_path_meta_field_name |-> "None",
             crawler_naming_function |-> "None"]
C7_FieldsStored == pc = "done" =>
  \A f \in DOMAIN C7_StatedDefaults :
    self[f] = IF kwargs[f].passed THEN kwargs[f].val ELSE C7_StatedDefaults[f]
C7_Witness == pc = "done" /\ ~kwargs.crawler_depth.passed /\ kwargs.urls.passed
              /\ kwargs.extract_hidden_text.passed

\* C8: when webdriver.Chrome raises, the error reaches the caller unchanged,
\* the driver was tried once with no fallback, and no instance is returned.
C8_DriverFailurePropagates == pc = "failed" =>
  (raised = DriverError /\ self = NoInstance /\ driverAttempts = 1)
C8_Witness == pc = "failed" /\ ~callerOpts.none

\* C9: the registered arguments are set(base) plus "--headless" plus each
\* environment-conditional flag exactly when its condition holds, with
\* IN_AZUREML true only for the exact value "True".
C9_Colab == "google.colab" \in modules
C9_Azure == azureVar = "True"
C9_Win == platform \in {"win32", "cygwin"}
C9_Root == ~C9_Win /\ euid = 0
C9_ExactArgs == Ran =>
  args = Range(BaseOf(callerOpts)) \cup {Headless}
         \cup (IF C9_Root \/ C9_Win \/ C9_Colab THEN {NoSandbox} ELSE {})
         \cup (IF C9_Root \/ C9_Win THEN {DebugPort} ELSE {})
         \cup (IF C9_Colab \/ C9_Azure THEN {DevShm} ELSE {})
C9_Witness == pc = "done" /\ azureVar = "true" /\ ~C9_Colab /\ ~callerOpts.none
              /\ DevShm \notin args

\* C10: the caller's webdriver_options list is left unchanged by construction.
C10_CallerListUnchanged == Ran => callerList = callerOpts

====
